---- MODULE Spec2Model ----
(***************************************************************************)
(* Country / neighbor handlers of src/src/handlers.ts over two DynamoDB    *)
(* tables: CountriesTable (key countryID) and CountryNeighborsTable (key   *)
(* countryID + neighborId).  Every await on the document client is one     *)
(* step of the invocation that issues it; invocations of different         *)
(* requests interleave at those steps.                                     *)
(***************************************************************************)
EXTENDS Integers, Sequences, FiniteSets, TLC

\* ---------------------------------------------------------------- bounds
MaxIds == 2          \* identifiers v4() can hand out in one run
MaxLen == 2          \* longest neighbors array of an addNeighbors request
MaxBatch == 2        \* longest array of a createCountry request
MaxInFlight == 2     \* invocations running at once
MaxRows == 3         \* records CountriesTable holds when getAllCountriesPaginated scans it

Ids == 1..MaxIds
Names == {"a"}       \* a record's payload: the fields the schema requires
NoItem == "undefined"            \* output.Item of a get that found nothing
AddProcs == {"add1", "add2"}     \* concurrent addNeighbors invocations

VARIABLES
    countries,   \* CountriesTable: countryID -> name, or NoItem
    nextId,      \* the next identifier v4() returns
    neighbors,   \* CountryNeighborsTable: set of <<countryID, neighborId>>
    resp,        \* statusCode a create/get/update/delete/list handler returned, 0: none
    an,          \* per addNeighbors invocation: position and locals
    gn,          \* the getCountryNeighbors invocation: position and locals
    reported,    \* pairs some delivered addNeighbors response listed as added
    pg           \* the getAllCountriesPaginated invocation: position and locals

vars == <<countries, nextId, neighbors, resp, an, gn, reported, pg>>

\* ------------------------------------------------------------ store reads
\* docClient.get on CountriesTable: the item, or undefined
fetchCountryById(id) == countries[id]

\* docClient.scan with ProjectionExpression countryID
fetchAllCountryIds == {id \in Ids : countries[id] # NoItem}

fetchNeighborSwappedKey(countryID, neighborId) == <<neighborId, countryID>> \in neighbors
\* docClient.get on CountryNeighborsTable by the full key: is there an item
fetchNeighbor(countryID, neighborId) == <<countryID, neighborId>> \in neighbors

addNeighborUnwritten(table, countryID, neighborId) == table
addNeighborBothWays(table, countryID, neighborId) ==
    table \cup {<<countryID, neighborId>>, <<neighborId, countryID>>}
\* docClient.put on CountryNeighborsTable: upsert of the item with that key
addNeighbor(table, countryID, neighborId) == table \cup {<<countryID, neighborId>>}

RECURSIVE SortedSeq(_)
SortedSeq(S) ==
    IF S = {} THEN <<>>
    ELSE LET m == CHOOSE x \in S : \A y \in S : x <= y
         IN <<m>> \o SortedSeq(S \ {m})

\* docClient.query by partition key: the neighborId of each item, in sort-key order
fetchNeighborsByCountryId(countryID) ==
    SortedSeq({n \in Ids : <<countryID, n>> \in neighbors})

\* ---------------------------------------------------------- CRUD handlers
Response(code, body) == [statusCode |-> code, body |-> body]

\* request bodies of createCountry: not an array, or an array of payloads
CreateBodies ==
    {[isArray |-> FALSE, items |-> <<>>]} \cup
    {[isArray |-> TRUE, items |-> c] : c \in UNION {[1..n -> Names] : n \in 1..MaxBatch}}

createCountry(body) ==
    /\ resp = 0
    /\ UNCHANGED <<neighbors, an, gn, reported, pg>>
    /\ IF ~body.isArray
       THEN /\ resp' = 500
            /\ UNCHANGED <<countries, nextId>>
       ELSE LET n == Len(body.items)
            IN /\ nextId + n - 1 <= MaxIds
               /\ countries' = [id \in Ids |->
                      IF id >= nextId /\ id < nextId + n
                      THEN body.items[id - nextId + 1] ELSE countries[id]]
               /\ nextId' = nextId + n
               /\ resp' = 201

getCountry(id) ==
    /\ resp = 0
    /\ resp' = 200
    /\ UNCHANGED <<countries, nextId, neighbors, an, gn, reported, pg>>

\* request bodies of updateCountry: bad JSON, a payload the schema rejects, a payload
UpdateBodies == {"malformed", "invalid"} \cup Names

\* JSON.parse, schema.validate, then the put; the result of fetchCountryById is
\* unused.  An id no v4() call returned is stood for by nextId, the first such id
updateCountry(id, body) ==
    /\ resp = 0
    /\ id <= nextId
    /\ UNCHANGED <<neighbors, an, gn, reported, pg>>
    /\ IF body = "malformed"
       THEN /\ resp' = 400
            /\ UNCHANGED <<countries, nextId>>
       ELSE IF body = "invalid"
       THEN /\ resp' = 400
            /\ UNCHANGED <<countries, nextId>>
       ELSE /\ countries' = [countries EXCEPT ![id] = body]
            /\ nextId' = IF id = nextId THEN id + 1 ELSE nextId
            /\ resp' = 200

deleteCountryCascade(id) ==
    /\ resp = 0
    /\ countries' = [countries EXCEPT ![id] = NoItem]
    /\ neighbors' = {pair \in neighbors : pair[1] # id /\ pair[2] # id}
    /\ resp' = 204
    /\ UNCHANGED <<nextId, an, gn, reported, pg>>
\* fetchCountryById returns undefined for a missing id and its result is unused,
\* so the delete is the handler's only store call that matters
deleteCountry(id) ==
    /\ resp = 0
    /\ countries' = [countries EXCEPT ![id] = NoItem]
    /\ resp' = 204
    /\ UNCHANGED <<nextId, neighbors, an, gn, reported, pg>>

listCountry ==
    /\ resp = 0
    /\ resp' = 200
    /\ UNCHANGED <<countries, nextId, neighbors, an, gn, reported, pg>>

\* the response of a create/get/update/delete/list handler leaves the invocation
crudDeliver ==
    /\ resp # 0
    /\ resp' = 0
    /\ UNCHANGED <<countries, nextId, neighbors, an, gn, reported, pg>>

\* ------------------------------------------------------------ addNeighbors
InvalidMsg(id) == <<"Invalid neighbor country ID", id>>
ExistsMsg(id) == <<"Neighbor already exists for this country", id>>

NeighborLists == UNION {[1..n -> Ids] : n \in 0..MaxLen}

AnIdle ==
    [pc |-> "idle", countryID |-> 0, neighborData |-> <<>>, existingCountryIds |-> {},
     idx |-> 0, errors |-> <<>>, successfulAdditions |-> <<>>, written |-> <<>>,
     resp |-> Response(0, <<>>)]

CountryMissingNever(country) == FALSE
\* !country
CountryMissing(country) == country = NoItem

IncludesAlways(ids, neighborId) == TRUE
\* existingCountryIds.includes(neighborId)
Includes(ids, neighborId) == neighborId \in ids

AddResponseFailOnAnyError(added, errors) ==
    IF Len(added) = 0 \/ Len(errors) > 0
    THEN Response(400, [neighbors |-> <<>>, errors |-> errors])
    ELSE Response(200, [neighbors |-> added, errors |-> errors])
\* the return statement after the loop
AddResponse(added, errors) ==
    IF Len(added) = 0
    THEN Response(400, [neighbors |-> <<>>, errors |-> errors])
    ELSE Response(200, [neighbors |-> added, errors |-> errors])

NotFoundResponse == Response(404, "Country not found")

\* the invocation starts: fetchCountryById and the 404 return
addNeighbors(p, countryID, neighborData) ==
    /\ an[p].pc = "idle"
    /\ an' = [an EXCEPT ![p] =
          IF CountryMissing(fetchCountryById(countryID))
          THEN [AnIdle EXCEPT !.pc = "done", !.countryID = countryID,
                              !.neighborData = neighborData, !.resp = NotFoundResponse]
          ELSE [AnIdle EXCEPT !.pc = "scan", !.countryID = countryID,
                              !.neighborData = neighborData]]
    /\ UNCHANGED <<countries, nextId, neighbors, resp, gn, reported, pg>>

\* await fetchAllCountryIds()
anScan(p) ==
    /\ an[p].pc = "scan"
    /\ an' = [an EXCEPT ![p].pc = "loop", ![p].idx = 1,
                        ![p].existingCountryIds = fetchAllCountryIds]
    /\ UNCHANGED <<countries, nextId, neighbors, resp, gn, reported, pg>>

\* one pass of the for loop up to its await fetchNeighbor, or the return after it
anLoop(p) ==
    /\ an[p].pc = "loop"
    /\ LET s == an[p]
           neighborId == s.neighborData[s.idx]
       IN an' = [an EXCEPT ![p] =
            IF s.idx > Len(s.neighborData)
            THEN [s EXCEPT !.pc = "done",
                           !.resp = AddResponse(s.successfulAdditions, s.errors)]
            ELSE IF ~Includes(s.existingCountryIds, neighborId)
            THEN [s EXCEPT !.errors = Append(@, InvalidMsg(neighborId)), !.idx = @ + 1]
            ELSE IF fetchNeighbor(s.countryID, neighborId)
            THEN [s EXCEPT !.errors = Append(@, ExistsMsg(neighborId)), !.idx = @ + 1]
            ELSE [s EXCEPT !.pc = "put"]]
    /\ UNCHANGED <<countries, nextId, neighbors, resp, gn, reported, pg>>

\* await addNeighbor(countryID, neighborId); successfulAdditions.push(neighborId)
anPut(p) ==
    /\ an[p].pc = "put"
    /\ LET s == an[p]
           neighborId == s.neighborData[s.idx]
       IN /\ neighbors' = addNeighbor(neighbors, s.countryID, neighborId)
          /\ an' = [an EXCEPT ![p].pc = "loop", ![p].idx = @ + 1,
                      ![p].successfulAdditions = Append(@, neighborId),
                      ![p].written = Append(@, neighbors' \ neighbors)]
    /\ UNCHANGED <<countries, nextId, resp, gn, reported, pg>>

\* the response leaves the invocation
anDeliver(p) ==
    /\ an[p].pc = "done"
    /\ reported' = reported \cup
          IF an[p].resp.statusCode = 200
          THEN {<<an[p].countryID, an[p].resp.body.neighbors[i]>> :
                    i \in 1..Len(an[p].resp.body.neighbors)}
          ELSE {}
    /\ an' = [an EXCEPT ![p] = AnIdle]
    /\ UNCHANGED <<countries, nextId, neighbors, resp, gn, pg>>

\* ------------------------------------------------------ getCountryNeighbors
Pending == [id |-> 0, name |-> "pending"]

GnIdle ==
    [pc |-> "idle", countryID |-> 0, neighbors |-> <<>>, neighborCountries |-> <<>>,
     resp |-> Response(0, <<>>)]

\* the public projection of a neighbor record
Project(neighborId, item) == [id |-> neighborId, name |-> item]

FirstPending(results) == CHOOSE i \in 1..Len(results) :
    /\ results[i] = Pending
    /\ \A j \in 1..(i - 1) : results[j] # Pending

CollectInCompletionOrder(results, i, entry) ==
    [results EXCEPT ![FirstPending(results)] = entry]
\* Promise.all: the value of the i-th promise is the i-th element of the result
Collect(results, i, entry) == [results EXCEPT ![i] = entry]

getCountryNeighbors(countryID) ==
    /\ gn.pc = "idle"
    /\ gn' = IF CountryMissing(fetchCountryById(countryID))
             THEN [GnIdle EXCEPT !.pc = "done", !.countryID = countryID,
                                 !.resp = NotFoundResponse]
             ELSE [GnIdle EXCEPT !.pc = "query", !.countryID = countryID]
    /\ UNCHANGED <<countries, nextId, neighbors, resp, an, reported, pg>>

\* await fetchNeighborsByCountryId(countryID) and the empty-list return
gnQuery ==
    /\ gn.pc = "query"
    /\ LET ns == fetchNeighborsByCountryId(gn.countryID)
       IN gn' = IF Len(ns) = 0
                THEN [gn EXCEPT !.pc = "done", !.resp = Response(200, <<>>)]
                ELSE [gn EXCEPT !.pc = "fetching", !.neighbors = ns,
                                !.neighborCountries = [i \in 1..Len(ns) |-> Pending]]
    /\ UNCHANGED <<countries, nextId, neighbors, resp, an, reported, pg>>

\* the i-th callback of neighbors.map: its fetchCountryById completes
gnFetch(i) ==
    /\ gn.pc = "fetching"
    /\ i \in 1..Len(gn.neighbors)
    /\ gn.neighborCountries[i] = Pending
    /\ LET neighbor == fetchCountryById(gn.neighbors[i])
       IN gn' = IF neighbor = NoItem
                THEN [gn EXCEPT !.pc = "done",
                                !.resp = Response(500, "Internal Server Error")]
                ELSE [gn EXCEPT !.neighborCountries =
                         Collect(@, i, Project(gn.neighbors[i], neighbor))]
    /\ UNCHANGED <<countries, nextId, neighbors, resp, an, reported, pg>>

\* Promise.all resolved: the 200 return
gnReturn ==
    /\ gn.pc = "fetching"
    /\ \A i \in 1..Len(gn.neighbors) : gn.neighborCountries[i] # Pending
    /\ gn' = [gn EXCEPT !.pc = "done", !.resp = Response(200, gn.neighborCountries)]
    /\ UNCHANGED <<countries, nextId, neighbors, resp, an, reported, pg>>

gnDeliver ==
    /\ gn.pc = "done"
    /\ gn' = GnIdle
    /\ UNCHANGED <<countries, nextId, neighbors, resp, an, reported, pg>>

\* ------------------------------------------------ getAllCountriesPaginated
\* A JavaScript number as the handler computes with it: a sign and a magnitude
\* (so -0 is a value of its own), NaN, or an infinity.
Num(neg, v) == [kind |-> "num", neg |-> neg, v |-> v]
NaN == [kind |-> "nan", neg |-> FALSE, v |-> 0]
Infinity(neg) == [kind |-> "inf", neg |-> neg, v |-> 0]

Val(x) == IF x.neg THEN 0 - x.v ELSE x.v
FromInt(i) == IF i < 0 THEN Num(TRUE, 0 - i) ELSE Num(FALSE, i)

\* x - y, x + y and x * y on the numbers parseInt returns
Minus(x, y) ==
    IF x.kind = "nan" \/ y.kind = "nan" THEN NaN
    ELSE IF Val(x) - Val(y) = 0 THEN Num(x.neg /\ ~y.neg, 0)
    ELSE FromInt(Val(x) - Val(y))

Plus(x, y) ==
    IF x.kind = "nan" \/ y.kind = "nan" THEN NaN
    ELSE IF Val(x) + Val(y) = 0 THEN Num(x.neg /\ y.neg, 0)
    ELSE FromInt(Val(x) + Val(y))

Times(x, y) ==
    IF x.kind = "nan" \/ y.kind = "nan" THEN NaN
    ELSE Num(x.neg # y.neg, x.v * y.v)

\* x < y
LessThan(x, y) ==
    IF x.kind = "nan" \/ y.kind = "nan" THEN FALSE
    ELSE IF x.kind = "inf" THEN x.neg /\ ~(y.kind = "inf" /\ y.neg)
    ELSE IF y.kind = "inf" THEN ~y.neg
    ELSE Val(x) < Val(y)

\* the characters of the page and limit query strings
DigitValue ==
    [c \in {"0", "1", "2", "3", "4", "5", "6", "7", "8", "9"} |->
        CASE c = "0" -> 0 [] c = "1" -> 1 [] c = "2" -> 2 [] c = "3" -> 3 [] c = "4" -> 4
          [] c = "5" -> 5 [] c = "6" -> 6 [] c = "7" -> 7 [] c = "8" -> 8 [] c = "9" -> 9]

RECURSIVE DigitPrefix(_)
DigitPrefix(s) ==
    IF s = <<>> THEN <<>>
    ELSE IF Head(s) \notin DOMAIN DigitValue THEN <<>>
    ELSE <<Head(s)>> \o DigitPrefix(Tail(s))

RECURSIVE Decimal(_)
Decimal(d) ==
    IF d = <<>> THEN 0
    ELSE 10 * Decimal(SubSeq(d, 1, Len(d) - 1)) + DigitValue[d[Len(d)]]

\* parseInt(string): an optional sign, then the longest run of decimal digits;
\* NaN when there is no digit; the rest of the string is ignored
parseInt(s) ==
    LET neg == IF s = <<>> THEN FALSE ELSE Head(s) = "-"
        signed == IF s = <<>> THEN FALSE ELSE Head(s) \in {"+", "-"}
        d == DigitPrefix(IF signed THEN Tail(s) ELSE s)
    IN IF d = <<>> THEN NaN ELSE Num(neg, Decimal(d))

CeilFloorsInstead(total, limit) ==
    IF limit.kind = "nan" THEN NaN
    ELSE IF limit.v = 0 THEN (IF total = 0 THEN NaN ELSE Infinity(limit.neg))
    ELSE Num(limit.neg, total \div limit.v)
\* Math.ceil(totalCountries / parseInt(limit))
Ceil(total, limit) ==
    IF limit.kind = "nan" THEN NaN
    ELSE IF limit.v = 0 THEN (IF total = 0 THEN NaN ELSE Infinity(limit.neg))
    ELSE IF limit.neg THEN Num(TRUE, total \div limit.v)
    ELSE Num(FALSE, (total + limit.v - 1) \div limit.v)

\* the index Array.prototype.slice makes of an argument: NaN is 0, a negative
\* argument counts from the end, and the result stays within 0..len
SliceIndex(x, len) ==
    IF x.kind = "nan" THEN 0
    ELSE IF Val(x) < 0 THEN (IF len + Val(x) < 0 THEN 0 ELSE len + Val(x))
    ELSE IF Val(x) > len THEN len ELSE Val(x)

\* items.slice(start, end)
Slice(items, start, end) ==
    SubSeq(items, SliceIndex(start, Len(items)) + 1, SliceIndex(end, Len(items)))

\* JSON.stringify of a number: NaN and the infinities become null, -0 becomes 0
JsonNumber(x) ==
    IF x.kind = "num" THEN [isNull |-> FALSE, value |-> Val(x)]
    ELSE [isNull |-> TRUE, value |-> 0]

\* a query-string parameter: given with a value, or not given
Given(value) == [given |-> TRUE, value |-> value]
NotGiven(value) == [given |-> FALSE, value |-> value]

\* the destructuring default
Default(param, default) == IF param.given THEN param.value ELSE default

PageParams ==
    {NotGiven(<<>>)} \cup
    {Given(v) : v \in {<<"1">>, <<"2">>, <<"3">>, <<"0">>, <<"-", "1">>, <<"a">>}}
LimitParams ==
    {NotGiven(<<>>)} \cup
    {Given(v) : v \in {<<"1">>, <<"2">>, <<"0">>, <<"-", "1">>, <<"a">>}}
SortParams ==
    {NotGiven("")} \cup
    {Given(v) : v \in {"a_to_z", "z_to_a", "population_high_to_low",
                       "population_low_to_high", "area_high_to_low",
                       "area_low_to_high", "newest"}}
SearchParams ==
    {NotGiven(<<>>)} \cup
    {Given(v) : v \in {<<>>, <<"a">>, <<"c">>, <<"/">>, <<"(">>}}

\* event.queryStringParameters
Queries == [page : PageParams, limit : LimitParams, sort_by : SortParams,
            search : SearchParams]

\* the attributes of a record that the handler reads, as the schema types them
Item(name, population, area) ==
    [name |-> name, region |-> <<"c">>, subregion |-> <<"c", "d">>,
     population |-> population, area |-> area]

Records == {Item(<<"a">>, 1, 1), Item(<<"a">>, 2, 2),
            Item(<<"b">>, 1, 2), Item(<<"b">>, 2, 1)}

\* CountriesTable at the time of the scan, in the order the scan returns it
Tables == UNION {[1..n -> Records] : n \in 0..MaxRows}

SortCriteriaAscendingOnly(sort_by) ==
    IF sort_by \in {"population_high_to_low", "population_low_to_high"}
    THEN [sortKey |-> "population", sortDirection |-> 1]
    ELSE IF sort_by \in {"area_high_to_low", "area_low_to_high"}
    THEN [sortKey |-> "area", sortDirection |-> 1]
    ELSE [sortKey |-> "name", sortDirection |-> 1]
\* switch (sort_by)
SortCriteria(sort_by) ==
    IF sort_by = "a_to_z" THEN [sortKey |-> "name", sortDirection |-> 1]
    ELSE IF sort_by = "z_to_a" THEN [sortKey |-> "name", sortDirection |-> 0 - 1]
    ELSE IF sort_by = "population_high_to_low"
    THEN [sortKey |-> "population", sortDirection |-> 0 - 1]
    ELSE IF sort_by = "population_low_to_high"
    THEN [sortKey |-> "population", sortDirection |-> 1]
    ELSE IF sort_by = "area_high_to_low" THEN [sortKey |-> "area", sortDirection |-> 0 - 1]
    ELSE IF sort_by = "area_low_to_high" THEN [sortKey |-> "area", sortDirection |-> 1]
    ELSE [sortKey |-> "name", sortDirection |-> 1]

\* new RegExp(search, "i") throws SyntaxError on an unterminated group
RegExpThrows(search) == \E i \in 1..Len(search) : search[i] = "("

\* RegExp.prototype.source: the pattern, with every "/" escaped
RECURSIVE RegExpSource(_)
RegExpSource(search) ==
    IF search = <<>> THEN <<>>
    ELSE (IF Head(search) = "/" THEN <<"\\", "/">> ELSE <<Head(search)>>)
             \o RegExpSource(Tail(search))

\* contains(attribute, :search) of the filter expression: a substring test
RECURSIVE Contains(_, _)
Contains(attribute, sub) ==
    IF Len(sub) > Len(attribute) THEN FALSE
    ELSE IF SubSeq(attribute, 1, Len(sub)) = sub THEN TRUE
    ELSE Contains(Tail(attribute), sub)

\* the FilterExpression
Matches(item, sub) ==
    Contains(item.name, sub) \/ Contains(item.region, sub) \/ Contains(item.subregion, sub)

\* docClient.scan(params): every item, or with a filter the items it accepts
RECURSIVE Scan(_, _, _)
Scan(table, filtered, sub) ==
    IF table = <<>> THEN <<>>
    ELSE (IF filtered => Matches(Head(table), sub) THEN <<Head(table)>> ELSE <<>>)
             \o Scan(Tail(table), filtered, sub)

CharCode == [c \in {"a", "b", "c", "d"} |->
    IF c = "a" THEN 97 ELSE IF c = "b" THEN 98 ELSE IF c = "c" THEN 99 ELSE 100]

\* s < t on strings: by the first code unit that differs, a proper prefix first
RECURSIVE StringLess(_, _)
StringLess(s, t) ==
    IF t = <<>> THEN FALSE
    ELSE IF s = <<>> THEN TRUE
    ELSE IF Head(s) = Head(t) THEN StringLess(Tail(s), Tail(t))
    ELSE CharCode[Head(s)] < CharCode[Head(t)]

\* aValue < bValue for aValue = a[sortKey], bValue = b[sortKey]
ValueLess(a, b, sortKey) ==
    IF sortKey = "name" THEN StringLess(a.name, b.name)
    ELSE IF sortKey = "population" THEN a.population < b.population
    ELSE a.area < b.area

\* the comparator handed to Items.sort
Compare(a, b, sortKey, sortDirection) ==
    IF ValueLess(a, b, sortKey) THEN (0 - 1) * sortDirection
    ELSE IF ValueLess(b, a, sortKey) THEN 1 * sortDirection
    ELSE 0

\* x goes after every element of the sorted run that does not compare above it
RECURSIVE Insert(_, _, _, _)
Insert(sorted, x, sortKey, sortDirection) ==
    IF sorted = <<>> THEN <<x>>
    ELSE IF Compare(Head(sorted), x, sortKey, sortDirection) > 0 THEN <<x>> \o sorted
    ELSE <<Head(sorted)>> \o Insert(Tail(sorted), x, sortKey, sortDirection)

\* Array.prototype.sort with that comparator: a stable sort
RECURSIVE Sort(_, _, _)
Sort(items, sortKey, sortDirection) ==
    IF items = <<>> THEN <<>>
    ELSE Insert(Sort(SubSeq(items, 1, Len(items) - 1), sortKey, sortDirection),
                items[Len(items)], sortKey, sortDirection)

PgIdle ==
    [pc |-> "idle", page |-> <<>>, limit |-> <<>>, sort_by |-> "", search |-> NotGiven(<<>>),
     skip |-> NaN, sortKey |-> "", sortDirection |-> 1, filtered |-> FALSE,
     table |-> <<>>, Items |-> <<>>, resp |-> [statusCode |-> 0, data |-> <<>>]]

hasPrevFromFirstPage(page) == LessThan(Num(FALSE, 0), parseInt(page))
\* parseInt(page) > 1
hasPrev(page) == LessThan(Num(FALSE, 1), parseInt(page))

\* parseInt(page) < totalPages
hasNext(page, totalPages) == LessThan(parseInt(page), totalPages)

\* the handler up to its await: the defaults, skip, the sort criteria and the
\* scan parameters; new RegExp may throw, and the catch block returns 500
getAllCountriesPaginated(q) ==
    /\ pg.pc = "idle"
    /\ LET page == Default(q.page, <<"1">>)
           limit == Default(q.limit, <<"1", "0">>)
           sort_by == Default(q.sort_by, "a_to_z")
           search == q.search
           filtered == search.given /\ search.value # <<>>
           criteria == SortCriteria(sort_by)
           s == [PgIdle EXCEPT
                    !.page = page, !.limit = limit, !.sort_by = sort_by, !.search = search,
                    !.skip = Times(Minus(parseInt(page), Num(FALSE, 1)), parseInt(limit)),
                    !.sortKey = criteria.sortKey,
                    !.sortDirection = criteria.sortDirection]
       IN pg' = IF filtered /\ RegExpThrows(search.value)
                THEN [s EXCEPT !.pc = "done", !.resp = [statusCode |-> 500, data |-> <<>>]]
                ELSE [s EXCEPT !.pc = "scan", !.filtered = filtered]
    /\ UNCHANGED <<countries, nextId, neighbors, resp, an, gn, reported>>

\* the scan completes on the table as it is then; the sort, the page window and
\* the 200 return follow without another await
pgScan(table) ==
    /\ pg.pc = "scan"
    /\ LET Items == Sort(Scan(table, pg.filtered, RegExpSource(pg.search.value)),
                         pg.sortKey, pg.sortDirection)
           totalCountries == Len(Items)
           totalPages == Ceil(totalCountries, parseInt(pg.limit))
           list == Slice(Items, pg.skip, Plus(pg.skip, parseInt(pg.limit)))
       IN pg' = [pg EXCEPT
                    !.pc = "done", !.table = table, !.Items = Items,
                    !.resp = [statusCode |-> 200,
                              data |-> [list |-> list,
                                        has_next |-> hasNext(pg.page, totalPages),
                                        has_prev |-> hasPrev(pg.page),
                                        page |-> JsonNumber(parseInt(pg.page)),
                                        pages |-> JsonNumber(totalPages),
                                        per_page |-> JsonNumber(parseInt(pg.limit)),
                                        total |-> JsonNumber(FromInt(totalCountries))]]]
    /\ UNCHANGED <<countries, nextId, neighbors, resp, an, gn, reported>>

\* the response leaves the invocation
pgDeliver ==
    /\ pg.pc = "done"
    /\ pg' = PgIdle
    /\ UNCHANGED <<countries, nextId, neighbors, resp, an, gn, reported>>

\* ------------------------------------------------------------ specification
Init ==
    /\ countries = [id \in Ids |-> NoItem]
    /\ nextId = 1
    /\ neighbors = {}
    /\ resp = 0
    /\ an = [p \in AddProcs |-> AnIdle]
    /\ gn = GnIdle
    /\ reported = {}
    /\ pg = PgIdle

\* the steps an invocation takes after its first
Steps ==
    \/ crudDeliver
    \/ \E p \in AddProcs : anScan(p)
    \/ \E p \in AddProcs : anLoop(p)
    \/ \E p \in AddProcs : anPut(p)
    \/ \E p \in AddProcs : anDeliver(p)
    \/ gnQuery
    \/ \E i \in 1..MaxIds : gnFetch(i)
    \/ gnReturn
    \/ gnDeliver

\* no invocation is running
Quiet ==
    /\ resp = 0
    /\ \A p \in AddProcs : an[p].pc = "idle"
    /\ gn.pc = "idle"

\* requests arrive one at a time: a handler runs to its response before the next starts
NextSeq ==
    \/ Quiet /\ \E body \in CreateBodies : createCountry(body)
    \/ Quiet /\ \E id \in Ids : getCountry(id)
    \/ Quiet /\ \E id \in Ids, body \in UpdateBodies : updateCountry(id, body)
    \/ Quiet /\ \E id \in Ids : deleteCountry(id)
    \/ Quiet /\ listCountry
    \/ Quiet /\ \E c \in Ids, data \in NeighborLists : addNeighbors("add1", c, data)
    \/ Quiet /\ \E c \in Ids : getCountryNeighbors(c)
    \/ Steps

SpecSeq == Init /\ [][NextSeq]_vars

\* the invocations that have started and not yet delivered their response
InFlight ==
    Cardinality({p \in AddProcs : an[p].pc # "idle"})
        + (IF gn.pc # "idle" THEN 1 ELSE 0) + (IF resp # 0 THEN 1 ELSE 0)

\* room for one more invocation
Admit == InFlight < MaxInFlight

\* requests overlap: the invocations interleave at every await
Next ==
    \/ Admit /\ \E body \in CreateBodies : createCountry(body)
    \/ Admit /\ \E id \in Ids : getCountry(id)
    \/ Admit /\ \E id \in Ids, body \in UpdateBodies : updateCountry(id, body)
    \/ Admit /\ \E id \in Ids : deleteCountry(id)
    \/ Admit /\ listCountry
    \/ Admit /\ \E p \in AddProcs, c \in Ids, data \in NeighborLists :
                   addNeighbors(p, c, data)
    \/ Admit /\ \E c \in Ids : getCountryNeighbors(c)
    \/ Steps

Spec == Init /\ [][Next]_vars

\* getAllCountriesPaginated only reads CountriesTable: its requests on their own,
\* one at a time, over every table of up to MaxRows records
NextPage ==
    \/ pg.pc = "idle" /\ \E q \in Queries : getAllCountriesPaginated(q)
    \/ pg.pc = "scan" /\ \E table \in Tables : pgScan(table)
    \/ pgDeliver

SpecPage == Init /\ [][NextPage]_vars

\* ------------------------------------------------------------------ claims
Range(f) == {f[i] : i \in DOMAIN f}

\* an addNeighbors invocation that has returned and whose country record exists
Returned(p) == an[p].pc = "done" /\ countries[an[p].countryID] # NoItem

\* the pairs the puts of invocation p inserted into CountryNeighborsTable
Inserted(p) == UNION Range(an[p].written)

\* C1: updateCountry on an id with no record responds 404 and leaves
\* CountriesTable as it was, whatever the body.
C1_UpdateMissingNotFound ==
    [][\A id \in Ids, body \in UpdateBodies :
          (updateCountry(id, body) /\ countries[id] = NoItem)
              => (resp' = 404 /\ countries' = countries)]_vars

\* C2: deleteCountry on an existing id responds 204 and removes the record;
\* deleteCountry on an id whose record was removed responds 404.
C2_DeleteTwiceNotFound ==
    [][\A id \in Ids :
          deleteCountry(id) =>
              IF countries[id] # NoItem
              THEN resp' = 204 /\ countries'[id] = NoItem
              ELSE id < nextId => resp' = 404]_vars

\* C3: with requests one at a time, addNeighbors(c, [v]) for existing c and v
\* returns 200 with added = [v] when no earlier call reported the pair, and
\* 400 with added = [], the already-exists error and no put when an earlier
\* call did; either way the table then holds the pair (c, v).
C3_SequentialIdempotence ==
    \A p \in AddProcs :
        (/\ Returned(p)
         /\ Len(an[p].neighborData) = 1
         /\ countries[an[p].neighborData[1]] # NoItem)
        => LET c == an[p].countryID
               v == an[p].neighborData[1]
           IN /\ <<c, v>> \in neighbors
              /\ IF <<c, v>> \in reported
                 THEN /\ an[p].resp.statusCode = 400
                      /\ an[p].resp.body = [neighbors |-> <<>>, errors |-> <<ExistsMsg(v)>>]
                      /\ an[p].written = <<>>
                 ELSE /\ an[p].resp.statusCode = 200
                      /\ an[p].resp.body = [neighbors |-> <<v>>, errors |-> <<>>]
                      /\ an[p].written = <<{<<c, v>>}>>

C3_Witness ==
    \E p \in AddProcs :
        /\ Returned(p)
        /\ Len(an[p].neighborData) = 1
        /\ countries[an[p].neighborData[1]] # NoItem
        /\ <<an[p].countryID, an[p].neighborData[1]>> \in reported
        /\ an[p].resp.statusCode = 400

\* C4: addNeighbors(c, [x]) with c existing and x the id of no record returns
\* 400 with added = [], the one error "Invalid neighbor country ID: x", and
\* puts nothing into CountryNeighborsTable.
C4_InvalidNeighbor ==
    \A p \in AddProcs :
        (/\ Returned(p)
         /\ Len(an[p].neighborData) = 1
         /\ countries[an[p].neighborData[1]] = NoItem)
        => /\ an[p].resp.statusCode = 400
           /\ an[p].resp.body =
                 [neighbors |-> <<>>, errors |-> <<InvalidMsg(an[p].neighborData[1])>>]
           /\ an[p].written = <<>>

C4_Witness ==
    \E p \in AddProcs :
        /\ Returned(p)
        /\ Len(an[p].neighborData) = 1
        /\ countries[an[p].neighborData[1]] = NoItem
        /\ an[p].resp.statusCode = 400

\* C5: once the country exists, addNeighbors returns 400 with an empty added
\* list and the errors exactly when the call inserted no pair, else 200 with
\* the added list and the errors; the pairs it inserted are the ids of added,
\* and every item of the input was either added or given an error.
C5_ResultPolicy ==
    \A p \in AddProcs :
        Returned(p) =>
            LET s == an[p]
                added == s.successfulAdditions
            IN /\ s.resp.statusCode \in {200, 400}
               /\ (s.resp.statusCode = 400) <=> (Inserted(p) = {})
               /\ s.resp.statusCode = 400 =>
                     s.resp.body = [neighbors |-> <<>>, errors |-> s.errors]
               /\ s.resp.statusCode = 200 =>
                     s.resp.body = [neighbors |-> added, errors |-> s.errors]
               /\ Len(s.written) = Len(added)
               /\ \A i \in 1..Len(added) : s.written[i] = {<<s.countryID, added[i]>>}
               /\ \A i \in 1..Len(s.neighborData) :
                     LET n == s.neighborData[i]
                     IN IF countries[n] = NoItem
                        THEN InvalidMsg(n) \in Range(s.errors) /\ n \notin Range(added)
                        ELSE /\ <<s.countryID, n>> \in neighbors
                             /\ n \in Range(added) \/ ExistsMsg(n) \in Range(s.errors)

C5_Witness ==
    \E p \in AddProcs :
        /\ Returned(p)
        /\ an[p].resp.statusCode = 200
        /\ Len(an[p].resp.body.errors) > 0
        /\ an[p].neighborData[1] \notin Range(an[p].successfulAdditions)

\* C6: when countryID has no record, addNeighbors and getCountryNeighbors
\* both return 404 "Country not found", and addNeighbors puts nothing.
C6_CountryNotFound ==
    /\ \A p \in AddProcs :
          (an[p].pc = "done" /\ countries[an[p].countryID] = NoItem)
              => /\ an[p].resp.statusCode = 404
                 /\ an[p].resp.body = NotFoundResponse.body
                 /\ an[p].written = <<>>
                 /\ an[p].successfulAdditions = <<>>
    /\ (gn.pc = "done" /\ countries[gn.countryID] = NoItem)
          => gn.resp.statusCode = 404 /\ gn.resp.body = NotFoundResponse.body

C6_Witness ==
    \E p \in AddProcs :
        /\ an[p].pc = "done"
        /\ countries[an[p].countryID] = NoItem
        /\ \E i \in 1..Len(an[p].neighborData) : countries[an[p].neighborData[i]] # NoItem

\* C7: two overlapping addNeighbors invocations never both report the same
\* (countryID, neighborId) pair as added.
C7_AtMostOneAdds ==
    \A p, q \in AddProcs :
        (/\ p # q
         /\ an[p].pc = "done" /\ an[q].pc = "done"
         /\ an[p].countryID = an[q].countryID
         /\ an[p].resp.statusCode = 200 /\ an[q].resp.statusCode = 200)
        => Range(an[p].resp.body.neighbors) \cap Range(an[q].resp.body.neighbors) = {}

\* C8: whenever addNeighbors puts a pair into CountryNeighborsTable, both ids
\* of the pair have a record in CountriesTable at that moment.
C8_ReferentialIntegrityAtInsert ==
    [][\A p \in AddProcs :
          anPut(p) =>
              /\ countries[an[p].countryID] # NoItem
              /\ countries[an[p].neighborData[an[p].idx]] # NoItem]_vars

\* C9: every pair in CountryNeighborsTable was put by an addNeighbors call for
\* the pair's first component that lists the second as added; no call for A
\* creates a pair whose first component is another country.
C9_Directed ==
    \A pair \in neighbors :
        \/ pair \in reported
        \/ \E p \in AddProcs :
              /\ an[p].countryID = pair[1]
              /\ pair[2] \in Range(an[p].successfulAdditions)

C9_Witness ==
    /\ <<1, 2>> \in neighbors
    /\ <<2, 1>> \notin neighbors
    /\ <<1, 2>> \in reported

\* the response getCountryNeighbors owes for a list of neighbor ids
GnExpected(ns) == [i \in 1..Len(ns) |-> Project(ns[i], countries[ns[i]])]

\* C10 as stated: for an existing country getCountryNeighbors returns 200 with
\* one entry per stored pair, the i-th entry the record of the i-th id of the
\* relation query.
C10_OneEntryPerPair ==
    (gn.pc = "done" /\ countries[gn.countryID] # NoItem)
        => /\ gn.resp.statusCode = 200
           /\ gn.resp.body = GnExpected(fetchNeighborsByCountryId(gn.countryID))

\* C10 amended: the same when every id the relation query returns still has a
\* record; when one has none the call returns 500.
C10_OneEntryPerLivePair ==
    (gn.pc = "done" /\ countries[gn.countryID] # NoItem)
        => LET ns == fetchNeighborsByCountryId(gn.countryID)
           IN IF \A i \in 1..Len(ns) : countries[ns[i]] # NoItem
              THEN /\ gn.resp.statusCode = 200
                   /\ gn.resp.body = GnExpected(ns)
              ELSE gn.resp.statusCode = 500

C10_Witness ==
    /\ gn.pc = "done"
    /\ gn.resp.statusCode = 200
    /\ Len(gn.resp.body) = 2
    /\ gn.resp.body[1].id # gn.resp.body[2].id

\* the decimal numeral of a natural number
RECURSIVE Numeral(_)
Numeral(n) ==
    LET digit == CHOOSE c \in DOMAIN DigitValue : DigitValue[c] = n % 10
    IN IF n < 10 THEN <<digit>> ELSE Numeral(n \div 10) \o <<digit>>

\* the positive integers a page or limit of the requests can denote
Positives == 1..10
NumeralOf == [n \in Positives |-> Numeral(n)]

\* the request's page is the numeral of p and its limit the numeral of l
Paging(p, l) == pg.page = NumeralOf[p] /\ pg.limit = NumeralOf[l]

\* the search text occurs in the attribute
Occurs(text, attribute) ==
    \E i, j \in 1..Len(attribute) : SubSeq(attribute, i, j) = text

\* the rows of the scanned table that the search of the request selects
Selected ==
    {i \in 1..Len(pg.table) :
        (pg.search.given /\ pg.search.value # <<>>) =>
            \/ Occurs(pg.search.value, pg.table[i].name)
            \/ Occurs(pg.search.value, pg.table[i].region)
            \/ Occurs(pg.search.value, pg.table[i].subregion)}

\* the scan of a getAllCountriesPaginated invocation has returned
Scanned == pg.pc = "done" /\ pg.resp.statusCode # 500

\* C11: for page p and limit l positive integers, the 200 envelope has total
\* the number of records the search selects, pages = ceil(total / l), list the
\* elements of the sorted set at positions (p-1)*l up to but excluding
\* (p-1)*l + l (length min(l, max(0, total - (p-1)*l))), has_next exactly
\* when p < pages, has_prev exactly when p > 1, and page = p, per_page = l.
C11_EnvelopeArithmetic ==
    Scanned => \A p, l \in Positives :
        Paging(p, l)
        => LET d == pg.resp.data
               total == Cardinality(Selected)
               pages == CHOOSE n \in 0..total :
                            n * l >= total /\ \A m \in 0..(n - 1) : m * l < total
               rest == IF total - (p - 1) * l < 0 THEN 0 ELSE total - (p - 1) * l
               size == IF l < rest THEN l ELSE rest
           IN /\ pg.resp.statusCode = 200
              /\ d.total = [isNull |-> FALSE, value |-> total]
              /\ Len(pg.Items) = total
              /\ d.pages = [isNull |-> FALSE, value |-> pages]
              /\ d.page = [isNull |-> FALSE, value |-> p]
              /\ d.per_page = [isNull |-> FALSE, value |-> l]
              /\ d.list = [i \in 1..size |-> pg.Items[(p - 1) * l + i]]
              /\ d.has_next = (p < pages)
              /\ d.has_prev = (p > 1)

\* a middle page: page 2 of 3
C11_Witness ==
    /\ Scanned
    /\ pg.page = Numeral(2)
    /\ pg.limit = Numeral(1)
    /\ pg.resp.data.total.value = 3
    /\ Len(pg.resp.data.list) = 1
    /\ pg.resp.data.has_next
    /\ pg.resp.data.has_prev
    /\ pg.resp.data.pages.value = 3

\* the request's search is a text that selects no record of the scanned table
NoMatch ==
    /\ Scanned
    /\ pg.search.given /\ pg.search.value # <<>>
    /\ Selected = {}

Alphabet == <<"a", "b", "c", "d">>
Letter(c) == CHOOSE i \in 1..Len(Alphabet) : Alphabet[i] = c
NameBefore(s, t) ==
    \E k \in 1..Len(t) :
        /\ \A i \in 1..(k - 1) : i <= Len(s) /\ s[i] = t[i]
        /\ k > Len(s) \/ Letter(s[k]) < Letter(t[k])
Before(a, b, sort_by) ==
    CASE sort_by = "z_to_a" -> NameBefore(b.name, a.name)
      [] sort_by = "population_high_to_low" -> a.population > b.population
      [] sort_by = "population_low_to_high" -> a.population < b.population
      [] sort_by = "area_high_to_low" -> a.area > b.area
      [] sort_by = "area_low_to_high" -> a.area < b.area
      [] OTHER -> NameBefore(a.name, b.name)

\* the place of row i of the scanned table in the sorted set: after the
\* selected rows that go before it and the earlier rows that tie with it
Place(i) ==
    1 + Cardinality({j \in Selected :
            \/ Before(pg.table[j], pg.table[i], pg.sort_by)
            \/ j < i /\ ~Before(pg.table[i], pg.table[j], pg.sort_by)})

\* C13: the whole selected set is sorted by the key and direction of sort_by
\* (an unrecognized value as a_to_z) before the page is cut from it; with
\* population_high_to_low the populations never increase along the sorted set.
C13_SortedBeforeSlice ==
    Scanned =>
        /\ Len(pg.Items) = Cardinality(Selected)
        /\ \A i \in Selected : pg.Items[Place(i)] = pg.table[i]
        /\ \A i, j \in 1..Len(pg.Items) :
              (i < j) => ~Before(pg.Items[j], pg.Items[i], pg.sort_by)
        /\ pg.sort_by = "population_high_to_low" =>
              \A i \in 1..(Len(pg.Items) - 1) :
                  pg.Items[i].population >= pg.Items[i + 1].population
        /\ \A p, l \in Positives :
              Paging(p, l) => \A k \in 1..Len(pg.resp.data.list) :
                    pg.resp.data.list[k] = pg.Items[(p - 1) * l + k]

\* page 2 of a set the sort reordered, by descending population
C13_Witness ==
    /\ Scanned
    /\ pg.sort_by = "population_high_to_low"
    /\ pg.Items # pg.table
    /\ Len(pg.Items) = 3
    /\ pg.Items[1].population > pg.Items[3].population
    /\ pg.page = Numeral(2)
    /\ pg.limit = Numeral(1)
    /\ pg.resp.data.list = <<pg.Items[2]>>

\* C14: a request whose page or limit is not a positive integer is answered
\* 400 once its scan parameters are built; a 200 envelope is produced only for
\* positive integers.
C14_RejectsInvalidPaging ==
    (Scanned /\ ~\E p, l \in Positives : Paging(p, l))
        => pg.resp.statusCode = 400

\* C15: deleteCountry leaves CountryNeighborsTable as it is; and whenever that
\* table holds a pair (c, n) with n the id of no record, a getCountryNeighbors(c)
\* for existing c has answered 500 for the whole call.
C15_OrphanFailsWholeCall ==
    [][/\ \A id \in Ids : deleteCountry(id) => neighbors' = neighbors
       /\ (/\ gn'.pc = "done"
           /\ countries'[gn'.countryID] # NoItem
           /\ \E n \in Ids : /\ <<gn'.countryID, n>> \in neighbors'
                             /\ countries'[n] = NoItem)
          => gn'.resp.statusCode = 500]_vars

\* the orphaned pair left by addNeighbors then deleteCountry, and the 500
C15_Witness ==
    /\ gn.pc = "done"
    /\ gn.resp.statusCode = 500
    /\ countries[gn.countryID] # NoItem
    /\ \E n \in Ids : /\ <<gn.countryID, n>> \in reported
                      /\ <<gn.countryID, n>> \in neighbors
                      /\ countries[n] = NoItem

\* the elements of f at the positions of keep, in order
RECURSIVE Picked(_, _, _)
Picked(f, keep, n) ==
    IF n = 0 THEN <<>>
    ELSE Picked(f, keep, n - 1) \o (IF n \in keep THEN <<f[n]>> ELSE <<>>)

\* C16: with requests one at a time, a call that found its country gives each
\* position of the input one entry, in input order: the id in added when it
\* is valid, was not stored before the call and occurs at no earlier position;
\* otherwise an error, already-exists for a valid id (so for its second
\* occurrence) and invalid-id for the others; |added| + |errors| = |input|.
C16_PerItemAccounting ==
    \A p \in AddProcs :
        Returned(p) =>
            LET s == an[p]
                n == Len(s.neighborData)
                before == neighbors \ Inserted(p)
                valid(i) == countries[s.neighborData[i]] # NoItem
                adds == {i \in 1..n :
                            /\ valid(i)
                            /\ <<s.countryID, s.neighborData[i]>> \notin before
                            /\ \A j \in 1..(i - 1) : s.neighborData[j] # s.neighborData[i]}
                message == [i \in 1..n |->
                               IF valid(i) THEN ExistsMsg(s.neighborData[i])
                               ELSE InvalidMsg(s.neighborData[i])]
            IN /\ Len(s.successfulAdditions) + Len(s.errors) = n
               /\ s.successfulAdditions = Picked(s.neighborData, adds, n)
               /\ s.errors = Picked(message, (1..n) \ adds, n)

\* the same valid id twice: added once, then already existing
C16_Witness ==
    \E p \in AddProcs :
        /\ Returned(p)
        /\ Len(an[p].neighborData) = 2
        /\ an[p].neighborData[1] = an[p].neighborData[2]
        /\ an[p].successfulAdditions = <<an[p].neighborData[1]>>
        /\ an[p].errors = <<ExistsMsg(an[p].neighborData[1])>>
        /\ an[p].resp.statusCode = 200

====
